---------------------------- MODULE Spec2Model ----------------------------
(***************************************************************************)
(* The pod tracker of log-aggregator (transform/k8/tracker.go): a bounded  *)
(* LRU cache of pod records, written by the informer's OnAdd / OnUpdate /  *)
(* OnDelete callbacks and read by Get, which falls back to a point lookup  *)
(* through the cluster client on a miss and fills the cache with           *)
(* ContainsOrAdd.                                                          *)
(***************************************************************************)
EXTENDS Naturals, Sequences, FiniteSets, TLC

(***************************************************************************)
(* Bounds of the model.                                                    *)
(***************************************************************************)
\* Largest capacity handed to newPodTracker (every capacity 1..MaxPods is explored).
MaxPods == 2
\* Number of concurrent callers of Get.
NumCallers == 1
\* Largest number of calls of watchForPods on the one tracker.
MaxWatches == 2

Callers == 1..NumCallers

Namespaces == {"ns"}
Names == {"a", "b", "c"}
\* Spec.NodeName of a pod: "" is an unscheduled pod.
Nodes == {"", "n1", "n2"}
\* The nodeName handed to newPodTracker: "" is no node filter.
NodeFilters == {"", "n1"}

(***************************************************************************)
(* Objects handed to the callbacks: a *v1.Pod, a DeletedFinalStateUnknown  *)
(* tombstone wrapping an object, or a value of some other type.            *)
(***************************************************************************)
Pods == [type : {"Pod"}, ns : Namespaces, name : Names, node : Nodes]

NotAPod == [type |-> "Other"]

Nil == [type |-> "nil"]

Tombstones == {[type |-> "DeletedFinalStateUnknown", obj |-> o] : o \in Pods \cup {NotAPod}}

Objs == Pods \cup {NotAPod} \cup Tombstones

\* The payloads of an Add event: any pod, or something that is not a pod.
AddObjs == Pods \cup {NotAPod}

\* The payloads of a Delete event.  OnDelete never reads the node of the pod:
\* a pod on n1, which the tracker tracks under either node filter, comes as
\* itself, and an unscheduled pod, which it does not track, in a tombstone.
DeleteObjs ==
    {obj \in Objs :
        /\ obj.type = "Pod" => obj.node = "n1"
        /\ (obj.type = "DeletedFinalStateUnknown" /\ obj.obj.type = "Pod")
              => obj.obj.node = ""}

\* The payloads of an Update event.  OnUpdate only asserts the type of the
\* old object: with a new pod comes that pod before it was scheduled, and a
\* payload that is not a pod comes on either side or on both.
UpdatePairs ==
    {<<[newObj EXCEPT !.node = ""], newObj>> : newObj \in Pods}
        \cup {<<NotAPod, newObj>> : newObj \in {pod \in Pods : pod.node = "n1"}}
        \cup {<<oldObj, NotAPod>> : oldObj \in {pod \in Pods : pod.node = "n1"}}
        \cup {<<NotAPod, NotAPod>>}

\* Pods whose namespaces and names are made of the same characters in the
\* same order.  A Kubernetes namespace is a DNS label and a pod name a DNS
\* subdomain: lower-case letters, digits and '-' (and '.' in a name), never
\* '_'.
KeyNamespaces == {"a", "a-b"}

KeyNames == {"c", "b-c"}

KeyPods == [type : {"Pod"}, ns : KeyNamespaces, name : KeyNames, node : {"n1"}]

\* the pods of KeyPods that the cluster runs: a/c, a/b-c and a-b/c
RunningKeyPods == {pod \in KeyPods : pod.ns = "a" \/ pod.name = "c"}

\* obj.(*v1.Pod) succeeds
IsPod(obj) == obj.type = "Pod"

\* obj.(kcache.DeletedFinalStateUnknown) succeeds
IsTombstone(obj) == obj.type = "DeletedFinalStateUnknown"

VARIABLES
    NodeName,   \* podTracker.NodeName
    maxPods,    \* the capacity newPodTracker was asked for
    size,       \* capacity of podTracker.cache
    cache,      \* podTracker.cache: entries [key, val], most recently used first
    call,       \* per caller of Get: where it is in Get and what it holds
    informers,  \* number of informers watchForPods has started (podController.Run)
    last,       \* history: the step just taken and what it did
    touched     \* history: cached keys by their last insert, overwrite or Get hit, latest first

vars == <<NodeName, maxPods, size, cache, call, informers, last, touched>>

(***************************************************************************)
(* lru.Cache (github.com/hashicorp/golang-lru): every method runs under    *)
(* the cache's lock, so each is one atomic step.                           *)
(***************************************************************************)
Keys(c) == {c[i].key : i \in 1..Len(c)}

Contains(c, k) == k \in Keys(c)

\* the value stored under k (k is cached); recency is not updated
Peek(c, k) == c[CHOOSE i \in 1..Len(c) : c[i].key = k].val

Without(c, k) == SelectSeq(c, LAMBDA e : e.key # k)

\* Cache.Get: a hit moves the entry to the front of the eviction list
lruGet(c, k) ==
    IF Contains(c, k) THEN <<[key |-> k, val |-> Peek(c, k)]>> \o Without(c, k) ELSE c

\* Cache.Add: an existing entry is overwritten and moved to the front; a new
\* one is pushed to the front and the oldest is removed when the list is
\* longer than the capacity
lruAdd(c, cap, k, v) ==
    IF Contains(c, k)
    THEN <<[key |-> k, val |-> v]>> \o Without(c, k)
    ELSE LET pushed == <<[key |-> k, val |-> v]>> \o c
         IN  IF Len(pushed) > cap THEN SubSeq(pushed, 1, Len(pushed) - 1) ELSE pushed

\* Cache.ContainsOrAdd: Contains does not update recency; Add only if absent
lruContainsOrAdd(c, cap, k, v) ==
    IF Contains(c, k) THEN c ELSE lruAdd(c, cap, k, v)

\* Cache.Remove
lruRemove(c, k) == Without(c, k)

(***************************************************************************)
(* podTracker                                                              *)
(***************************************************************************)
\* mutant: the cache is built one entry larger than asked
NewCacheSizeOffByOne(n) == n + 1

\* lru.New(maxPods): the capacity of the cache newPodTracker builds
NewCacheSize(n) == n

\* mutant: the parts of the key are joined by a character that names can hold
cacheKeyDash(namespaceName, podName) == namespaceName \o "-" \o podName

cacheKey(namespaceName, podName) == namespaceName \o "_" \o podName

\* mutant: the check for an unscheduled pod is missing
canTrackPodUnscheduled(pod) ==
    IF NodeName # "" /\ NodeName # pod.node THEN FALSE ELSE TRUE

\* mutant: the node filter is not applied
canTrackPodAnyNode(pod) ==
    IF pod.node = "" THEN FALSE ELSE TRUE

canTrackPod(pod) ==
    IF pod.node = "" THEN FALSE
    ELSE IF NodeName # "" /\ NodeName # pod.node THEN FALSE
    ELSE TRUE

\* mutant: an Add event does not overwrite a cached record
OnAddCacheIfAbsent(c, pod) == lruContainsOrAdd(c, size, cacheKey(pod.ns, pod.name), pod)

\* OnAdd's write: t.cache.Add(key, pod)
OnAddCache(c, pod) == lruAdd(c, size, cacheKey(pod.ns, pod.name), pod)

\* mutant: an Update event does not overwrite a cached record
OnUpdateCacheIfAbsent(c, newPod) ==
    lruContainsOrAdd(c, size, cacheKey(newPod.ns, newPod.name), newPod)

\* OnUpdate's write: t.cache.Add(key, newPod)
OnUpdateCache(c, newPod) == lruAdd(c, size, cacheKey(newPod.ns, newPod.name), newPod)

\* OnDelete's type switch: the pod itself, the pod a tombstone wraps, or none (Nil)
DeletedPod(obj) ==
    IF IsPod(obj) THEN obj
    ELSE IF IsTombstone(obj) /\ IsPod(obj.obj) THEN obj.obj
    ELSE Nil

\* mutant: a Delete event is honoured only for a pod the tracker tracks
OnDeleteCacheTracked(c, pod) ==
    IF canTrackPod(pod) THEN lruRemove(c, cacheKey(pod.ns, pod.name)) ELSE c

\* mutant: a Delete event writes the record instead of removing it
OnDeleteCacheAdd(c, pod) == lruAdd(c, size, cacheKey(pod.ns, pod.name), pod)

\* OnDelete's write: t.cache.Remove(key)
OnDeleteCache(c, pod) == lruRemove(c, cacheKey(pod.ns, pod.name))

\* mutant: Get reads the cache without marking the entry as used
GetCachePeek(c, k) == c

\* mutant: a Get hit takes the entry out of the cache
GetCacheTake(c, k) == lruRemove(c, k)

\* mutant: a Get hit marks the entry as the next to evict
GetCacheToBack(c, k) ==
    IF Contains(c, k) THEN Without(c, k) \o <<[key |-> k, val |-> Peek(c, k)]>> ELSE c

\* Get's read: val, ok := t.cache.Get(key); the cache after it
GetCache(c, k) == lruGet(c, k)

\* mutant: Get never trusts the cache and always asks the client
GetHitNever(c, k) == FALSE

\* Get's read: ok
GetHit(c, k) == Contains(c, k)

\* Get's read: val, returned on a hit
GetHitResult(c, k) == Peek(c, k)

\* mutant: the fallback writes with Add, overwriting what is cached
GetFillCacheAdd(c, k, pod) == lruAdd(c, size, k, pod)

\* mutant: the fallback looks for the key with Get, which marks it as used
GetFillCacheTouch(c, k, pod) ==
    IF Contains(c, k) THEN lruGet(c, k) ELSE lruAdd(c, size, k, pod)

\* mutant: the fallback returns the fetched record without caching it
GetFillCacheSkip(c, k, pod) == c

\* Get after a successful client lookup: t.cache.ContainsOrAdd(key, pod)
GetFillCache(c, k, pod) == lruContainsOrAdd(c, size, k, pod)

\* mutant: Get returns what the cache holds after the fill
GetFillResultCached(c, k, pod) == IF Contains(c, k) THEN Peek(c, k) ELSE pod

\* Get after a successful client lookup: return pod
GetFillResult(c, k, pod) == pod

\* a caller that is not inside Get; inside, it holds Get's arguments, the
\* fetched pod and the number of client lookups made so far
Idle == [pc |-> "idle", ns |-> "", name |-> "", pod |-> Nil, lookups |-> 0]

\* What t.client.CoreV1().Pods(ns).Get(name) can answer: the pod of that
\* namespace and name, on whatever node the cluster runs it, or an error
\* (Nil).  Get does not read the node of the answer.
ClientAnswers(namespaceName, podName) ==
    {[type |-> "Pod", ns |-> namespaceName, name |-> podName, node |-> n] :
        n \in Nodes \ {""}} \cup {Nil}

(***************************************************************************)
(* History: what the properties below need to know of the step just taken. *)
(* It is written from the arguments and the state before the step, never   *)
(* from what the tracker made of them.                                     *)
(***************************************************************************)
NoRet == [type |-> "none"]

NoPod == [type |-> "none", ns |-> "", name |-> "", node |-> "-"]

Entries(c) == {c[i] : i \in 1..Len(c)}

\* the pod an event's payload carries: the pod itself, or the pod a tombstone wraps
Carried(obj) ==
    IF obj.type = "Pod" THEN obj
    ELSE IF obj.type = "DeletedFinalStateUnknown" /\ obj.obj.type = "Pod" THEN obj.obj
    ELSE NoPod

\* the pod a Get is about: only its namespace and name are known
Asked(namespaceName, podName) ==
    [type |-> "Pod", ns |-> namespaceName, name |-> podName, node |-> "-"]

\* The end-to-end scenario: a tracker of capacity 2 without node filter gets,
\* from its construction on, Add events for the scheduled pods a, b and c in
\* that order, then Get(ns, a), which the client answers with a's record.
\* The scenario of a step is the part of it that the run up to and with the
\* step is, "" when the run is not a beginning of it.
Scenario(op, pod, ok) ==
    LET s == last.scenario
        added(name) == op = "OnAdd" /\ ok /\ pod.name = name /\ pod.node # ""
    IN  IF s = "new" /\ maxPods = 2 /\ NodeName = "" /\ added("a") THEN "A"
        ELSE IF s = "A" /\ added("b") THEN "AB"
        ELSE IF s = "AB" /\ added("c") THEN "ABC"
        ELSE IF s = "ABC" /\ op = "Get" /\ pod.name = "a" THEN "ABC Get"
        ELSE IF s = "ABC Get" /\ op = "ClientGet" /\ ok THEN "ABC Get fetched"
        ELSE IF s = "ABC Get fetched" /\ op = "GetFill" THEN "ABC Get returned"
        ELSE ""

\* The record of a step.  op: the operation.  pod: the pod the step is about
\* (NoPod when the payload carries none), key: its namespace_name.  ok: an
\* event's payload has the types its callback takes; the client answered
\* without error.  tomb: the payload is a tombstone.  present: key was cached
\* before the step.  evicted: the other keys the step dropped from the cache
\* c2 it leaves.  ret: what Get returned (NoRet: no Get returned in this
\* step), after lookups client lookups.  after: for a Get's cache read,
\* "OnAdd" when the step before it was an Add event for a pod of the same key
\* that the tracker tracks, "OnDelete" when it was a Delete event for the
\* same key, which was not cached; for a step about a pod whose key was not
\* cached, "Get" when the step before it was a Get that found its key the
\* least recently used; for the fill of a fallback, "OnDelete" when the step
\* before it was a Delete event for the same key.  lru: a Get found key the least recently
\* used of the cached keys.  scenario: how far the run so far is the
\* end-to-end scenario.
Step(op, pod, ok, tomb, c2, ret, n) ==
    LET k == IF pod = NoPod THEN "" ELSE pod.ns \o "_" \o pod.name
    IN  [op |-> op, pod |-> pod, key |-> k, ok |-> ok, tomb |-> tomb,
         present |-> k \in Keys(cache),
         lru |-> op = "Get" /\ touched # <<>> /\ touched[Len(touched)] = k,
         scenario |-> Scenario(op, pod, ok),
         evicted |-> (Keys(cache) \ Keys(c2)) \ {k},
         ret |-> ret, lookups |-> n,
         after |-> IF op = "Get"
                   THEN IF last.key # k \/ ~last.ok THEN ""
                        ELSE IF /\ last.op = "OnAdd" /\ last.pod.node # ""
                                /\ NodeName \in {"", last.pod.node} THEN "OnAdd"
                        ELSE IF last.op = "OnDelete" /\ ~last.present THEN "OnDelete"
                        ELSE ""
                   ELSE IF /\ op \in {"OnAdd", "OnUpdate", "GetFill"} /\ k \notin Keys(cache)
                           /\ last.op = "Get" /\ last.lru THEN "Get"
                   ELSE IF /\ op = "GetFill" /\ last.op = "OnDelete" /\ last.ok
                           /\ last.key = k THEN "OnDelete"
                   ELSE ""]

\* k becomes the most recently used key of the cache c2
Touch(k, c2) ==
    SelectSeq(<<k>> \o SelectSeq(touched, LAMBDA x : x # k), LAMBDA x : x \in Keys(c2))

\* recency is left alone, keys no longer in c2 drop out
Untouched(c2) == SelectSeq(touched, LAMBDA x : x \in Keys(c2))

(***************************************************************************)
(* Initial states.  newPodTracker(client, nodeName, maxPods) builds the     *)
(* tracker; Init is the tracker whose owner has then called watchForPods   *)
(* once, InitWatch the tracker as built, no informer started.              *)
(***************************************************************************)
newPodTracker ==
    /\ NodeName \in NodeFilters
    /\ maxPods \in 1..MaxPods
    /\ size = NewCacheSize(maxPods)
    /\ cache = <<>>
    /\ call = [p \in Callers |-> Idle]
    /\ last = [op |-> "newPodTracker", pod |-> NoPod, key |-> "", ok |-> TRUE,
               tomb |-> FALSE, present |-> FALSE, evicted |-> {}, ret |-> NoRet,
               lookups |-> 0, after |-> "", lru |-> FALSE, scenario |-> "new"]
    /\ touched = <<>>

Init == newPodTracker /\ informers = 1

InitWatch == newPodTracker /\ informers = 0

(***************************************************************************)
(* watchForPods(): builds an informer with the tracker's callbacks as its  *)
(* handlers and starts its loop in a goroutine of its own, on every call.  *)
(***************************************************************************)
watchForPods ==
    /\ informers < MaxWatches
    /\ informers' = informers + 1
    /\ last' = Step("watchForPods", NoPod, TRUE, FALSE, cache, NoRet, 0)
    /\ UNCHANGED <<NodeName, maxPods, size, cache, call, touched>>

(***************************************************************************)
(* Informer callbacks.  The informer delivers them one at a time; each     *)
(* does at most one cache operation.                                       *)
(***************************************************************************)
OnAdd(obj) ==
    /\ informers >= 1
    /\ IF IsPod(obj) /\ canTrackPod(obj)
       THEN LET c2 == OnAddCache(cache, obj)
            IN  /\ cache' = c2
                /\ last' = Step("OnAdd", Carried(obj), TRUE, FALSE, c2, NoRet, 0)
                /\ touched' = Touch(cacheKey(obj.ns, obj.name), c2)
       ELSE /\ cache' = cache
            /\ last' = Step("OnAdd", Carried(obj), obj.type = "Pod", FALSE, cache, NoRet, 0)
            /\ touched' = touched
    /\ UNCHANGED <<NodeName, maxPods, size, call, informers>>

\* mutant: the type of the old object is not looked at
OnUpdateNewOnly(oldObj, newObj) ==
    /\ informers >= 1
    /\ IF IsPod(newObj) /\ canTrackPod(newObj)
       THEN LET c2 == OnUpdateCache(cache, newObj)
            IN  /\ cache' = c2
                /\ last' = Step("OnUpdate",
                                IF oldObj.type = "Pod" /\ newObj.type = "Pod" THEN newObj ELSE NoPod,
                                oldObj.type = "Pod" /\ newObj.type = "Pod", FALSE, c2, NoRet, 0)
                /\ touched' = Touch(cacheKey(newObj.ns, newObj.name), c2)
       ELSE /\ cache' = cache
            /\ last' = Step("OnUpdate",
                            IF oldObj.type = "Pod" /\ newObj.type = "Pod" THEN newObj ELSE NoPod,
                            oldObj.type = "Pod" /\ newObj.type = "Pod", FALSE, cache, NoRet, 0)
            /\ touched' = touched
    /\ UNCHANGED <<NodeName, maxPods, size, call, informers>>

OnUpdate(oldObj, newObj) ==
    /\ informers >= 1
    /\ IF IsPod(oldObj) /\ IsPod(newObj) /\ canTrackPod(newObj)
       THEN LET c2 == OnUpdateCache(cache, newObj)
            IN  /\ cache' = c2
                /\ last' = Step("OnUpdate", newObj, TRUE, FALSE, c2, NoRet, 0)
                /\ touched' = Touch(cacheKey(newObj.ns, newObj.name), c2)
       ELSE /\ cache' = cache
            /\ last' = Step("OnUpdate",
                            IF oldObj.type = "Pod" /\ newObj.type = "Pod" THEN newObj ELSE NoPod,
                            oldObj.type = "Pod" /\ newObj.type = "Pod", FALSE, cache, NoRet, 0)
            /\ touched' = touched
    /\ UNCHANGED <<NodeName, maxPods, size, call, informers>>

OnDelete(obj) ==
    /\ informers >= 1
    /\ LET pod == DeletedPod(obj)
       IN  IF IsPod(pod)
           THEN LET c2 == OnDeleteCache(cache, pod)
                IN  /\ cache' = c2
                    /\ last' = Step("OnDelete", Carried(obj), Carried(obj) # NoPod,
                                    obj.type = "DeletedFinalStateUnknown", c2, NoRet, 0)
                    /\ touched' = Untouched(c2)
           ELSE /\ cache' = cache
                /\ last' = Step("OnDelete", Carried(obj), Carried(obj) # NoPod,
                                obj.type = "DeletedFinalStateUnknown", cache, NoRet, 0)
                /\ touched' = touched
    /\ UNCHANGED <<NodeName, maxPods, size, call, informers>>

(***************************************************************************)
(* Get(namespaceName, podName), by any number of callers at once.  Its     *)
(* steps are the cache read, the client lookup and the cache fill; other   *)
(* callers and the callbacks run between them.                             *)
(***************************************************************************)
\* t.cache.Get(key): return the value on a hit, go on to the client on a miss
Get(p, namespaceName, podName) ==
    /\ call[p].pc = "idle"
    /\ LET k == cacheKey(namespaceName, podName)
           c2 == GetCache(cache, k)
       IN  /\ cache' = c2
           /\ IF GetHit(cache, k)
              THEN /\ call' = [call EXCEPT ![p] = Idle]
                   /\ last' = Step("Get", Asked(namespaceName, podName), TRUE, FALSE, c2,
                                   GetHitResult(cache, k), 0)
              ELSE /\ call' = [call EXCEPT ![p] = [pc |-> "lookup", ns |-> namespaceName,
                                                   name |-> podName, pod |-> Nil,
                                                   lookups |-> 0]]
                   /\ last' = Step("Get", Asked(namespaceName, podName), TRUE, FALSE, c2,
                                   NoRet, 0)
           /\ touched' = IF namespaceName \o "_" \o podName \in Keys(cache)
                         THEN Touch(namespaceName \o "_" \o podName, c2)
                         ELSE Untouched(c2)
    /\ UNCHANGED <<NodeName, maxPods, size, informers>>

\* mutant: a failed lookup is tried once more before Get gives up
ClientGetRetry(p) ==
    /\ call[p].pc = "lookup"
    /\ \E answer \in ClientAnswers(call[p].ns, call[p].name) :
          LET n == call[p].lookups + 1
          IN  IF answer # Nil
              THEN /\ call' = [call EXCEPT ![p].pc = "fetched", ![p].pod = answer,
                                           ![p].lookups = n]
                   /\ last' = Step("ClientGet", answer, TRUE, FALSE, cache, NoRet, n)
              ELSE IF n < 2
              THEN /\ call' = [call EXCEPT ![p].lookups = n]
                   /\ last' = Step("ClientGet", Asked(call[p].ns, call[p].name), FALSE, FALSE,
                                   cache, NoRet, n)
              ELSE /\ call' = [call EXCEPT ![p] = Idle]
                   /\ last' = Step("ClientGet", Asked(call[p].ns, call[p].name), FALSE, FALSE,
                                   cache, Nil, n)
    /\ UNCHANGED <<NodeName, maxPods, size, cache, informers, touched>>

\* t.client.CoreV1().Pods(namespaceName).Get(podName, ...) answers; on an
\* error Get returns nil
ClientGet(p) ==
    /\ call[p].pc = "lookup"
    /\ \E answer \in ClientAnswers(call[p].ns, call[p].name) :
          LET n == call[p].lookups + 1
          IN  IF answer # Nil
              THEN /\ call' = [call EXCEPT ![p].pc = "fetched", ![p].pod = answer,
                                           ![p].lookups = n]
                   /\ last' = Step("ClientGet", answer, TRUE, FALSE, cache, NoRet, n)
              ELSE /\ call' = [call EXCEPT ![p] = Idle]
                   /\ last' = Step("ClientGet", Asked(call[p].ns, call[p].name), FALSE, FALSE,
                                   cache, Nil, n)
    /\ UNCHANGED <<NodeName, maxPods, size, cache, informers, touched>>

\* err == nil: ContainsOrAdd the fetched pod and return it
GetFill(p) ==
    /\ call[p].pc = "fetched"
    /\ LET k == cacheKey(call[p].ns, call[p].name)
           c2 == GetFillCache(cache, k, call[p].pod)
       IN  /\ cache' = c2
           /\ call' = [call EXCEPT ![p] = Idle]
           /\ last' = Step("GetFill", call[p].pod, TRUE, FALSE, c2,
                           GetFillResult(c2, k, call[p].pod), call[p].lookups)
           /\ touched' = IF call[p].ns \o "_" \o call[p].name \in Keys(cache)
                         THEN Untouched(c2)
                         ELSE Touch(call[p].ns \o "_" \o call[p].name, c2)
    /\ UNCHANGED <<NodeName, maxPods, size, informers>>

Next ==
    \/ \E obj \in AddObjs : OnAdd(obj)
    \/ \E pair \in UpdatePairs : OnUpdate(pair[1], pair[2])
    \/ \E obj \in DeleteObjs : OnDelete(obj)
    \/ \E p \in Callers, namespaceName \in Namespaces, podName \in Names :
          Get(p, namespaceName, podName)
    \/ \E p \in Callers : ClientGet(p)
    \/ \E p \in Callers : GetFill(p)

Spec == Init /\ [][Next]_vars

\* the tracker from its construction on, watchForPods called any number of times
NextWatch ==
    \/ watchForPods
    \/ Next

SpecWatch == InitWatch /\ [][NextWatch]_vars

\* the tracker in a cluster that runs the pods RunningKeyPods
NextKey ==
    \/ \E obj \in RunningKeyPods : OnAdd(obj)
    \/ \E obj \in RunningKeyPods : OnUpdate(obj, obj)
    \/ \E obj \in RunningKeyPods : OnDelete(obj)
    \/ \E p \in Callers, pod \in RunningKeyPods : Get(p, pod.ns, pod.name)
    \/ \E p \in Callers : ClientGet(p)
    \/ \E p \in Callers : GetFill(p)

SpecKey == Init /\ [][NextKey]_vars

(***************************************************************************)
(* Properties                                                              *)
(***************************************************************************)
\* a pod on this node is one the tracker does not track: it has no node, or
\* a node filter is set and the pod is on another node
Untrackable(pod) == pod.node = "" \/ (NodeName # "" /\ pod.node # NodeName)

\* the least recently used key: the one whose last insert, overwrite or Get
\* hit is the oldest
Oldest == IF touched = <<>> THEN {} ELSE {touched[Len(touched)]}

\* C1: in every reachable state the cache holds at most maxPods entries,
\* whatever events and Gets (with their fallback inserts) have run.
C1_CacheBounded == Len(cache) <= maxPods /\ Cardinality(Keys(cache)) = Len(cache)

\* a fallback fetch has just inserted into a full cache, which is still full
C1_Witness ==
    /\ last.op = "GetFill" /\ ~last.present /\ last.evicted # {}
    /\ Len(cache) = maxPods

\* C2: when the cache holds maxPods entries and a key that is not cached is
\* inserted, exactly one entry leaves, the least recently used one, and every
\* other entry keeps its value.
C2_EvictsLeastRecentlyUsed ==
    [][(Len(cache) = maxPods /\ Keys(cache') \ Keys(cache) # {})
          => /\ Keys(cache) \ Keys(cache') = Oldest
             /\ Cardinality(Keys(cache) \ Keys(cache')) = 1
             /\ \A k \in Keys(cache) \cap Keys(cache') : Peek(cache', k) = Peek(cache, k)]_vars

\* an event has just evicted an entry of a cache of two, and the entry that
\* stayed is not the one it was inserted after
C2_Witness ==
    /\ last.op \in {"OnAdd", "OnUpdate"} /\ last.evicted # {}
    /\ maxPods = 2 /\ Len(cache) = 2

\* C3: when the fallback's ContainsOrAdd finds its key cached, the cached
\* value stays: the fetched record never replaces it.
C3_FallbackNeverClobbers ==
    [][\A p \in Callers :
          LET k == call[p].ns \o "_" \o call[p].name
          IN  (call[p].pc = "fetched" /\ call'[p].pc = "idle" /\ k \in Keys(cache))
                 => (k \in Keys(cache') /\ Peek(cache', k) = Peek(cache, k))]_vars

\* a Get has just returned a record fetched from node n2 while the cache
\* keeps the record of node n1 that an event wrote after the Get's miss
C3_Witness ==
    /\ last.op = "GetFill" /\ last.present
    /\ NodeName = "n1" /\ last.pod.node = "n2"
    /\ last.key \in Keys(cache) /\ Peek(cache, last.key).node = "n1"

\* C4: a trackable Add event for r leaves r cached under r's key, and the
\* Get(r.namespace, r.name) that follows it returns r from the cache, without
\* a client lookup; so does any Get while r is what the cache holds.
C4_ReadAfterAdd ==
    [][/\ (last'.op = "OnAdd" /\ last'.ok /\ ~Untrackable(last'.pod))
             => (last'.key \in Keys(cache') /\ Peek(cache', last'.key) = last'.pod)
       /\ (last.op = "OnAdd" /\ last.ok /\ ~Untrackable(last.pod)
             /\ last'.op = "Get" /\ last'.key = last.key)
             => (last'.ret = last.pod /\ last'.lookups = 0 /\ call' = call)
       /\ \A r \in Pods :
             (last'.op = "Get" /\ last'.key \in Keys(cache) /\ Peek(cache, last'.key) = r)
                => (last'.ret = r /\ last'.lookups = 0)]_vars

\* a Get has just returned the record of the Add event before it, from a
\* cache that holds another pod too
C4_Witness ==
    /\ last.op = "Get" /\ last.after = "OnAdd" /\ last.present
    /\ last.ret \in Pods /\ last.ret.node = "n2" /\ Len(cache) = 2

\* C5 as claimed: after an Add event for a pod the tracker does not track,
\* the cache has no entry for the pod's key.
C5_NoEntryAfterUntrackedAdd ==
    (last.op = "OnAdd" /\ last.ok /\ Untrackable(last.pod)) => last.key \notin Keys(cache)

\* C5, amended: an Add event for a pod the tracker does not track leaves the
\* cache as it was, so the key is absent after it if it was absent before.
C5_UntrackedAddChangesNothing ==
    [][(last'.op = "OnAdd" /\ last'.ok /\ Untrackable(last'.pod))
          => (cache' = cache /\ (last'.key \notin Keys(cache) => last'.key \notin Keys(cache')))]_vars

\* an Add event for a pod on another node than the filter's has just been
\* processed by a tracker whose cache holds other pods
C5_Witness ==
    /\ last.op = "OnAdd" /\ last.ok /\ NodeName = "n1" /\ last.pod.node = "n2"
    /\ ~last.present /\ last.key \notin Keys(cache) /\ cache # <<>>

\* C6: right after a Delete event that carries a pod, as itself or in a
\* tombstone, trackable or not, the pod's key is not cached and every other
\* entry is as before.
C6_DeleteRemoves ==
    [][(last'.op = "OnDelete" /\ last'.ok)
          => /\ last'.key \notin Keys(cache')
             /\ Keys(cache') = Keys(cache) \ {last'.key}
             /\ \A k \in Keys(cache') : Peek(cache', k) = Peek(cache, k)]_vars

\* a tombstone for a cached pod the tracker does not track has just been
\* processed, and another entry is still cached
C6_Witness ==
    /\ last.op = "OnDelete" /\ last.ok /\ last.tomb /\ last.present
    /\ Untrackable(last.pod)
    /\ last.key \notin Keys(cache) /\ cache # <<>>

\* C7: a Delete event for a key that is not cached changes neither the
\* contents nor the recency order of the cache, and the Get for that key that
\* follows it misses and goes to the client.
C7_DeleteOfAbsentKey ==
    [][/\ (last'.op = "OnDelete" /\ last'.ok /\ ~last'.present)
             => (cache' = cache /\ touched' = touched)
       /\ (last.op = "OnDelete" /\ last.ok /\ ~last.present
             /\ last'.op = "Get" /\ last'.key = last.key)
             => /\ last'.ret = NoRet
                /\ \E p \in Callers :
                      /\ call[p].pc = "idle" /\ call'[p].pc = "lookup"
                      /\ call'[p].ns \o "_" \o call'[p].name = last.key]_vars

\* a Get has just missed on the key of the Delete event before it, which was
\* not cached, and waits for the client, the cache holding another pod
C7_Witness ==
    /\ last.op = "Get" /\ last.after = "OnDelete" /\ cache # <<>>
    /\ \E p \in Callers : call[p].pc = "lookup" /\ call[p].ns \o "_" \o call[p].name = last.key

\* C8: a Get that finds its key cached returns the cached record without a
\* client lookup and leaves the cached keys and values as they are; a client
\* lookup is only ever made for a Get whose cache read missed.
C8_HitReturnsCached ==
    [][/\ (last'.op = "Get" /\ last'.present)
             => /\ last'.ret = Peek(cache, last'.key)
                /\ last'.lookups = 0
                /\ call' = call
                /\ Entries(cache') = Entries(cache)
       /\ \A p \in Callers :
             (call[p].pc # "lookup" /\ call'[p].pc = "lookup")
                => (last'.op = "Get" /\ ~last'.present)
       /\ (last'.op = "ClientGet") => \E p \in Callers : call[p].pc = "lookup"]_vars

\* a Get has just returned a record from a cache of two entries
C8_Witness ==
    /\ last.op = "Get" /\ last.present /\ last.ret \in Pods
    /\ Len(cache) = 2 /\ \A p \in Callers : call[p].pc = "idle"

\* C9: a Get that missed and whose client lookup succeeded returns the
\* client's record, also when ContainsOrAdd found another record cached.
C9_ReturnsFetched ==
    [][/\ \A p \in Callers :
             (call[p].pc = "fetched" /\ call'[p].pc = "idle") => last'.ret = call[p].pod
       /\ \A p \in Callers :
             (call[p].pc = "lookup" /\ call'[p].pc = "fetched")
                => /\ last'.op = "ClientGet" /\ last'.ok
                   /\ call'[p].pod \in Pods
                   /\ call'[p].pod.ns = call[p].ns /\ call'[p].pod.name = call[p].name
                   /\ call'[p].pod = last'.pod]_vars

\* a Get has just returned the client's record while the cache holds a
\* different one under the same key
C9_Witness ==
    /\ last.op = "GetFill" /\ last.present /\ last.ret \in Pods
    /\ last.key \in Keys(cache) /\ Peek(cache, last.key) # last.ret

\* C10: when the client lookup of a Get fails, the Get returns nil after that
\* one lookup and the cache, contents and recency order, is as before.
C10_FailedLookup ==
    [][(last'.op = "ClientGet" /\ ~last'.ok)
          => /\ last'.ret = Nil
             /\ last'.lookups = 1
             /\ cache' = cache /\ touched' = touched
             /\ \E p \in Callers : call[p].pc = "lookup" /\ call'[p] = Idle]_vars

\* a Get has just returned nil after a failed lookup, the cache holding pods
C10_Witness ==
    /\ last.op = "ClientGet" /\ ~last.ok /\ last.ret = Nil /\ last.lookups = 1
    /\ cache # <<>>

\* C11: a tracker of capacity 2 without node filter that gets Add events for
\* the scheduled pods a, b and c in that order caches exactly b and c; the
\* Get for a that follows misses, and once the client has answered with a's
\* record the cache holds exactly c and a, b having been evicted, and the Get
\* returns a's record.
C11_EndToEnd ==
    /\ last.scenario = "ABC"
          => (Keys(cache) = {"ns_b", "ns_c"} /\ Peek(cache, "ns_c") = last.pod)
    /\ last.scenario = "ABC Get"
          => /\ Keys(cache) = {"ns_b", "ns_c"}
             /\ last.ret = NoRet
             /\ \E p \in Callers : call[p].pc = "lookup" /\ call[p].name = "a"
    /\ last.scenario = "ABC Get fetched"
          => /\ Keys(cache) = {"ns_b", "ns_c"}
             /\ last.pod.name = "a"
             /\ \E p \in Callers : call[p].pc = "fetched" /\ call[p].pod = last.pod
    /\ last.scenario = "ABC Get returned"
          => /\ Keys(cache) = {"ns_c", "ns_a"}
             /\ last.evicted = {"ns_b"}
             /\ last.pod.name = "a" /\ Peek(cache, "ns_a") = last.pod
             /\ last.ret = last.pod /\ last.lookups = 1

\* the scenario has just run to its end: the Get has returned a's record
C11_Witness ==
    /\ last.scenario = "ABC Get returned" /\ maxPods = 2 /\ NodeName = ""
    /\ last.op = "GetFill" /\ last.ret \in Pods /\ last.ret.name = "a"

\* C12: however often watchForPods has been called, at most one informer
\* loop delivers events to the tracker: whenever a callback has just run, no
\* second loop is running that delivers the same changes again or runs its
\* callbacks at the same time.
C12_OneSubscriberLoop ==
    last.op \in {"OnAdd", "OnUpdate", "OnDelete"} => informers <= 1

\* a callback has just written to the cache while two informer loops run
C12_TwoLoops ==
    /\ informers = 2 /\ last.op = "OnAdd" /\ last.key \in Keys(cache)

\* C13: an event whose payload has not the type its callback takes is
\* dropped: an Add event whose object is no pod, an Update event whose old or
\* new object is no pod, and a Delete event whose object is neither a pod nor
\* a tombstone that wraps one leave the contents and the recency order of the
\* cache, and the Gets in flight, as they were.
C13_MalformedDropped ==
    [][(last'.op \in {"OnAdd", "OnUpdate", "OnDelete"} /\ ~last'.ok)
          => (cache' = cache /\ touched' = touched /\ call' = call)]_vars

\* a tombstone that wraps no pod has just been dropped, the cache holding
\* two pods
C13_Witness ==
    /\ last.op = "OnDelete" /\ ~last.ok /\ last.tomb /\ last.pod = NoPod
    /\ Len(cache) = 2

\* C15: an Add or Update event whose (new) pod the tracker does not track (it
\* has no node, or the node filter is set and the pod is on another node)
\* leaves the cache as it was, contents and recency order: it inserts
\* nothing, and a record cached under the pod's key stays, with its value.
C15_UntrackedEventChangesNothing ==
    [][(last'.op \in {"OnAdd", "OnUpdate"} /\ last'.ok /\ Untrackable(last'.pod))
          => /\ cache' = cache /\ touched' = touched
             /\ last'.present
                   => (last'.key \in Keys(cache')
                         /\ Peek(cache', last'.key) = Peek(cache, last'.key))]_vars

\* an Update event has just told that a cached pod of the tracked node n1 now
\* runs on n2, and the cache still holds its record of n1
C15_Witness ==
    /\ last.op = "OnUpdate" /\ last.ok /\ NodeName = "n1" /\ last.pod.node = "n2"
    /\ last.present /\ last.key \in Keys(cache) /\ Peek(cache, last.key).node = "n1"

\* C16 as claimed: when a Get has just hit key k in a full cache of which k
\* was the least recently used entry, the step that inserts a new key next
\* evicts another entry and k stays cached.
C16_HitKeySurvivesInsert ==
    [][(last.op = "Get" /\ last.present /\ last.lru /\ Len(cache) = maxPods
          /\ Keys(cache') \ Keys(cache) # {})
          => (last.key \in Keys(cache') /\ Keys(cache) \ Keys(cache') # {})]_vars

\* C16, amended: the same of a full cache that holds another entry beside k,
\* that is of a capacity of at least 2; the entry evicted is then the one
\* that became the least recently used by the hit.
C16_HitKeySurvivesInsertOfTwo ==
    [][(last.op = "Get" /\ last.present /\ last.lru /\ Len(cache) = maxPods
          /\ Len(cache) >= 2 /\ Keys(cache') \ Keys(cache) # {})
          => /\ last.key \in Keys(cache')
             /\ Keys(cache) \ Keys(cache') # {}
             /\ Keys(cache) \ Keys(cache') = Oldest]_vars

\* a new key has just been inserted into a full cache of two, right after a
\* Get hit on the entry that was the least recently used, which is still
\* cached
C16_Witness ==
    /\ last.op \in {"OnAdd", "OnUpdate", "GetFill"} /\ ~last.present /\ last.evicted # {}
    /\ last.after = "Get" /\ maxPods = 2 /\ Len(cache) = 2 /\ cache[1].key = last.key

\* the keys that the insertion of a key that is not cached would evict from c
EvictedNext(c) == Keys(c) \ Keys(lruAdd(c, size, "", Nil))

\* C17: when the ContainsOrAdd of a fallback finds its key cached, it leaves
\* the cached value and the recency order as they are: the entry that the
\* next insertion would evict is the same before and after it.
C17_FallbackTouchesNothing ==
    [][\A p \in Callers :
          LET k == call[p].ns \o "_" \o call[p].name
          IN  (call[p].pc = "fetched" /\ call'[p].pc = "idle" /\ k \in Keys(cache))
                 => /\ cache' = cache
                    /\ EvictedNext(cache') = EvictedNext(cache)
                    /\ Oldest' = Oldest]_vars

\* a fallback has just found its key in a full cache of two, put there by an
\* event after the Get's miss, and the key is still the next to be evicted
C17_Witness ==
    /\ last.op = "GetFill" /\ last.present /\ maxPods = 2 /\ Len(cache) = 2
    /\ EvictedNext(cache) = {last.key}

\* C18: an entry leaves the cache only by a Delete event for its key or by
\* eviction: a step after which a cached key k is no longer cached is either
\* OnDelete for k, or the insertion of another key, not cached before, by an
\* Add event, an Update event or a fallback into a cache that held maxPods
\* entries of which k was the least recently used.  Every other step (a Get
\* hit, a failed lookup, an event the tracker drops) keeps all entries.
C18_LeavesByDeleteOrEviction ==
    [][\A k \in Keys(cache) \ Keys(cache') :
          \/ last'.op = "OnDelete" /\ last'.ok /\ last'.key = k
          \/ /\ last'.op \in {"OnAdd", "OnUpdate", "GetFill"}
             /\ last'.key # k /\ ~last'.present /\ last'.key \in Keys(cache')
             /\ Len(cache) = maxPods /\ Oldest = {k}]_vars

\* a fallback for a pod the tracker does not track has just evicted the
\* least recently used entry of a full cache of two
C18_Witness ==
    /\ last.op = "GetFill" /\ ~last.present /\ Cardinality(last.evicted) = 1
    /\ Untrackable(last.pod) /\ maxPods = 2 /\ Len(cache) = 2

\* C19 as claimed: the record cached under a key is the one of the latest of
\* the Add and Update events processed and the fallback fetches completed for
\* that key; so right after such an event or fetch, the key, when cached,
\* holds the record the event or the fetch carried.
C19_LatestEventOrFetch ==
    (/\ \/ last.op \in {"OnAdd", "OnUpdate"} /\ last.ok
        \/ last.op = "GetFill"
     /\ last.key \in Keys(cache))
       => Peek(cache, last.key) = last.pod

\* C19, amended: the record cached under a key is the one of the latest of
\* the Add and Update events for it that carried a pod the tracker tracks and
\* the fallback fetches for it that found the key not cached.  Each of these
\* leaves its record cached under the key, and no other step puts a record
\* into the cache or changes a cached one.
C19_LatestWrite ==
    [][/\ (last'.op \in {"OnAdd", "OnUpdate"} /\ last'.ok /\ ~Untrackable(last'.pod))
             => (last'.key \in Keys(cache') /\ Peek(cache', last'.key) = last'.pod)
       /\ (last'.op = "GetFill" /\ ~last'.present)
             => (last'.key \in Keys(cache') /\ Peek(cache', last'.key) = last'.pod)
       /\ \A e \in Entries(cache') \ Entries(cache) :
             /\ e.key = last'.key /\ e.val = last'.pod
             /\ \/ last'.op \in {"OnAdd", "OnUpdate"} /\ last'.ok /\ ~Untrackable(last'.pod)
                \/ last'.op = "GetFill" /\ ~last'.present]_vars

\* an Update event has just replaced the cached record of a pod by the
\* record of the pod on node n2
C19_Witness ==
    /\ last.op = "OnUpdate" /\ last.ok /\ ~Untrackable(last.pod) /\ last.present
    /\ last.pod.node = "n2" /\ Peek(cache, last.key) = last.pod /\ Len(cache) = 2

\* C20: a deletion is not undone by a fallback in flight: when a Delete event
\* for k has just been processed while a Get for k, which had missed, holds
\* the record it fetched before, the completion of that Get does not put the
\* record into the cache: k is still not cached after it.
C20_DeleteNotUndone ==
    [][\A p \in Callers :
          (/\ last.op = "OnDelete" /\ last.ok
           /\ call[p].pc = "fetched" /\ call[p].ns \o "_" \o call[p].name = last.key
           /\ call'[p].pc = "idle")
             => last.key \notin Keys(cache')]_vars

\* a Get has just cached the record it had fetched before the Delete event
\* for its key, which was the step before it, was processed
C20_DeleteUndone ==
    /\ last.op = "GetFill" /\ ~last.present /\ last.after = "OnDelete"
    /\ last.key \in Keys(cache) /\ Peek(cache, last.key) = last.pod

\* the identity of a pod
Ident(pod) == <<pod.ns, pod.name>>

\* C14: pods of different (namespace, name) have different cache keys, and
\* so no event and no Get for one pod acts on the entry of another: the
\* record a Get returns is of the pod it was asked for, a Delete event
\* removes no record of another pod, and an Add or Update event or a fallback
\* replaces no record of another pod (it can only evict one from a full
\* cache that did not hold the pod of the step).
C14_KeyPerPod ==
    [][/\ \A x, y \in KeyPods :
             Ident(x) # Ident(y) => cacheKey(x.ns, x.name) # cacheKey(y.ns, y.name)
       /\ last'.ret.type = "Pod" => Ident(last'.ret) = Ident(last'.pod)
       /\ last'.op = "OnDelete"
             => \A e \in Entries(cache) :
                   Ident(e.val) # Ident(last'.pod) => e \in Entries(cache')
       /\ last'.op \in {"OnAdd", "OnUpdate", "GetFill"}
             => \A e \in Entries(cache) :
                   Ident(e.val) # Ident(last'.pod)
                      => \/ e \in Entries(cache')
                         \/ /\ Len(cache) = maxPods
                            /\ \A f \in Entries(cache) : Ident(f.val) # Ident(last'.pod)
       /\ \A e, f \in Entries(cache') : Ident(e.val) = Ident(f.val) => e = f]_vars

\* a Get for pod c of namespace a-b has just returned that pod's record from
\* a cache that also holds pod b-c of namespace a
C14_Witness ==
    /\ last.op = "Get" /\ last.present /\ last.ret \in KeyPods
    /\ Ident(last.ret) = <<"a-b", "c">>
    /\ \E e \in Entries(cache) : Ident(e.val) = <<"a", "b-c">>

=============================================================================
